---- MODULE Spec2Model ----
(***************************************************************************)
(* Model of playform's cube-shell geometry (common/cube_shell.rs) and of   *)
(* the server's message handlers (server/src/server_update.rs).            *)
(***************************************************************************)
EXTENDS Integers, Sequences, FiniteSets, TLC

\* ------------------------------------------------------------------ bounds
\* `to` is `from` displaced by at most MaxDelta on every axis
MaxDelta == 3
\* radii range over 0..MaxRadius
MaxRadius == 2
\* an observer's center has x in 0..MaxCenter, y and z in 0..1
MaxCenter == 3
\* block positions are 1..NumPositions
NumPositions == 1
\* at most MaxInits Init messages are handled and at most MaxRequests blocks are
\* requested (by RequestBlock messages and for the server's own owners together)
MaxInits == 2
MaxRequests == 2
\* largest component of the acceleration that Walk builds up, in tenths
MaxWalk == 2
\* number of entity ids the callers of the VRAM buffers draw from
MaxIds == 5
\* capacity of each BufferTexture, in polygons; stands for POLYGON_BUDGET
MaxPolygons == 3
\* largest number of polygons in one call of push
MaxBatch == 2

VARIABLES
  \* --- cube_shell.rs: the arguments and the returned Vec of one call
  from,      \* Point3<i32>: `center` of cube_shell, `from` of cube_diff
  to,        \* Point3<i32>: `to` of cube_diff
  radius,    \* i32
  op,        \* which function has been called: "none", "cube_shell", "cube_diff"
  ret,       \* the Vec returned by cube_shell(from, radius) / cube_diff(from, to, radius)
  rev,       \* the Vec returned by cube_diff(to, from, radius)
  resident,  \* the cells an observer moving from `from` to `to` keeps resident
  \* --- server_update.rs: the server, its channels and the terrain it shares with gaia
  all_blocks,        \* terrain.all_blocks: BlockPosition -> lods (Vec<Option<TerrainBlock>>)
  to_client,         \* server.to_client: Option<Sender<ServerToClient>>, by url
  client_endpoints,  \* Vec<Endpoint>, one per Init, by url
  chan,              \* per client url: the ServerToClient messages sent to it, in order
  ups_to_gaia,       \* Sender<ServerToGaia>: the Load messages not yet taken by gaia
  ups_from_gaia,     \* the GaiaToServer messages not yet applied by the server
  owner_store,       \* what terrain_game_loader.load committed: {<<position, lod, owner>>}
  player,            \* server.player: position, is_jumping, accel (in tenths), rotation
                     \* (in quarter turns); walked_y is the sum of the y passed to Walk
  panicked,          \* "no", or the expression whose unwrap()/index panicked
  nrequests,         \* number of blocks requested so far
  \* --- server_update.rs, statement by statement: the terrain mutex and the handler's position
  lock,              \* holder of terrain_game_loader.terrain: "free", "server", "gaia"
  pc,                \* the server handler's position: "idle", "locked", "checked", "sent"
  cur,               \* the message being handled and what the presence check saw
  \* --- terrain_vram_buffers.rs: TerrainVRAMBuffers
  id_to_index,       \* HashMap<EntityId, usize>
  index_to_id,       \* Vec<EntityId>
  length,            \* usize: number of vertices to draw
  vertex_positions,  \* BufferTexture: one entry per polygon, tagged with its id
  normals,           \* BufferTexture
  colors,            \* BufferTexture
  last_call          \* the last call on the buffers: its name, what push returned, the
                     \* index swap_remove freed

cubeVars == <<from, to, radius, op, ret, rev, resident>>
lockVars == <<lock, pc, cur>>
vramVars == <<id_to_index, index_to_id, length, vertex_positions, normals, colors, last_call>>
serverVars == <<all_blocks, to_client, client_endpoints, chan, ups_to_gaia, ups_from_gaia,
                owner_store, player, panicked, nrequests>>
vars == <<from, to, radius, op, ret, rev, resident, all_blocks, to_client, client_endpoints,
          chan, ups_to_gaia, ups_from_gaia, owner_store, player, panicked, nrequests,
          lock, pc, cur, id_to_index, index_to_id, length, vertex_positions, normals, colors,
          last_call>>

\* ------------------------------------------------------- helper operators
Point3(px, py, pz) == [x |-> px, y |-> py, z |-> pz]

min(a, b) == IF a <= b THEN a ELSE b
max(a, b) == IF a >= b THEN a ELSE b

\* num::iter::range_inclusive(a, b): a, a+1, .., b; empty when b < a
range_inclusive(a, b) == [i \in 1..(b - a + 1) |-> a + i - 1]

\* range_abs::range_abs(radius): -radius, .., radius
range_abs(r) == range_inclusive(-r, r)

\* [-radius, radius].iter().cloned()
pair(r) == <<-r, r>>

ToSet(s) == {s[i] : i \in DOMAIN s}

\* the three nested for loops of cube_diff's add_square! (x outermost)
add_square(xs, ys, zs) ==
  LET ny == Len(ys)
      nz == Len(zs)
  IN [k \in 1..(Len(xs) * ny * nz) |->
        Point3(xs[((k - 1) \div (ny * nz)) + 1],
               ys[(((k - 1) \div nz) % ny) + 1],
               zs[((k - 1) % nz) + 1])]

\* the three nested for loops of cube_shell's add_square! (offsets from center)
add_square_shell(center, dxs, dys, dzs) ==
  LET ny == Len(dys)
      nz == Len(dzs)
  IN [k \in 1..(Len(dxs) * ny * nz) |->
        Point3(center.x + dxs[((k - 1) \div (ny * nz)) + 1],
               center.y + dys[(((k - 1) \div nz) % ny) + 1],
               center.z + dzs[((k - 1) % nz) + 1])]

\* ------------------------------------------------------------- cube_shell
shell_x_faces(center, r) == add_square_shell(center, pair(r), range_abs(r), range_abs(r))

shell_y_faces_wide(center, r) ==
  add_square_shell(center, range_abs(r), pair(r), range_abs(r))
shell_y_faces(center, r) == add_square_shell(center, range_abs(r - 1), pair(r), range_abs(r))

shell_z_faces_thin(center, r) ==
  add_square_shell(center, range_abs(r - 1), range_abs(r - 1), range_abs(r - 1))
shell_z_faces(center, r) == add_square_shell(center, range_abs(r - 1), range_abs(r - 1), pair(r))

cube_shell(center, r) ==
  IF r = 0
    THEN <<center>>
    ELSE shell_x_faces(center, r) \o shell_y_faces(center, r) \o shell_z_faces(center, r)

\* -------------------------------------------------------------- cube_diff
\* first add_square!: x over the vacated range, y and z over the whole cube
diff_x_pass_incl(f, t, r) ==
  add_square(
    IF f.x < t.x
      THEN range_inclusive(f.x - r, min(f.x + r, t.x - r))
      ELSE range_inclusive(max(f.x - r, t.x + r), f.x + r),
    range_inclusive(f.y - r, f.y + r),
    range_inclusive(f.z - r, f.z + r))
diff_x_pass(f, t, r) ==
  add_square(
    IF f.x < t.x
      THEN range_inclusive(f.x - r, min(f.x + r, t.x - r - 1))
      ELSE range_inclusive(max(f.x - r, t.x + r + 1), f.x + r),
    range_inclusive(f.y - r, f.y + r),
    range_inclusive(f.z - r, f.z + r))

\* second add_square!: x over the shared range, y vacated, z whole
diff_y_pass_all_x(f, t, r) ==
  add_square(
    range_inclusive(f.x - r, f.x + r),
    IF f.y < t.y
      THEN range_inclusive(f.y - r, min(f.y + r, t.y - r - 1))
      ELSE range_inclusive(max(f.y - r, t.y + r + 1), f.y + r),
    range_inclusive(f.z - r, f.z + r))
diff_y_pass_nomax(f, t, r) ==
  add_square(
    IF f.x < t.x
      THEN range_inclusive(t.x - r, f.x + r)
      ELSE range_inclusive(f.x - r, t.x + r),
    IF f.y < t.y
      THEN range_inclusive(f.y - r, min(f.y + r, t.y - r - 1))
      ELSE range_inclusive(t.y + r + 1, f.y + r),
    range_inclusive(f.z - r, f.z + r))
diff_y_pass(f, t, r) ==
  add_square(
    IF f.x < t.x
      THEN range_inclusive(t.x - r, f.x + r)
      ELSE range_inclusive(f.x - r, t.x + r),
    IF f.y < t.y
      THEN range_inclusive(f.y - r, min(f.y + r, t.y - r - 1))
      ELSE range_inclusive(max(f.y - r, t.y + r + 1), f.y + r),
    range_inclusive(f.z - r, f.z + r))

\* third add_square!: x and y over the shared ranges, z vacated
diff_z_pass_whole(f, t, r) ==
  add_square(
    IF f.x < t.x
      THEN range_inclusive(t.x - r, f.x + r)
      ELSE range_inclusive(f.x - r, t.x + r),
    IF f.y < t.y
      THEN range_inclusive(t.y - r, f.y + r)
      ELSE range_inclusive(f.y - r, t.y + r),
    IF f.z < t.z
      THEN range_inclusive(f.z - r, f.z + r)
      ELSE range_inclusive(max(f.z - r, t.z + r + 1), f.z + r))
diff_z_pass(f, t, r) ==
  add_square(
    IF f.x < t.x
      THEN range_inclusive(t.x - r, f.x + r)
      ELSE range_inclusive(f.x - r, t.x + r),
    IF f.y < t.y
      THEN range_inclusive(t.y - r, f.y + r)
      ELSE range_inclusive(f.y - r, t.y + r),
    IF f.z < t.z
      THEN range_inclusive(f.z - r, min(f.z + r, t.z - r - 1))
      ELSE range_inclusive(max(f.z - r, t.z + r + 1), f.z + r))

cube_diff(f, t, r) == diff_x_pass(f, t, r) \o diff_y_pass(f, t, r) \o diff_z_pass(f, t, r)

\* ------------------------------------------------------ server_update.rs
Clients == {"A", "B"}
Positions == 1..NumPositions
\* LODIndex: the levels of detail a block can be loaded at
Lods == {0, 1}
Owners == {"owner0"}

None == <<>>
Some(v) == <<v>>

ForClient == [kind |-> "ForClient"]
Local(owner) == [kind |-> "Local", owner |-> owner]

\* the TerrainBlock generated for a position at a level of detail
TerrainBlock(position, lod) == [position |-> position, lod |-> lod]

\* ServerToGaia::Load; origin and registered are history fields the code never reads:
\* who asked, and whether that client was server.to_client when it asked
Load(position, lod, reason, origin, registered) ==
  [position |-> position, lod |-> lod, reason |-> reason,
   origin |-> origin, registered |-> registered]

\* ServerToClient::AddBlock; origin, registered and via are history fields: the client
\* whose RequestBlock is answered, whether it was server.to_client when it asked, and
\* the handler that sent the message
AddBlock(position, block, lod, origin, registered, via) ==
  [type |-> "AddBlock", position |-> position, block |-> block, lod |-> lod,
   origin |-> origin, registered |-> registered, via |-> via]
UpdatePlayer(position) == [type |-> "UpdatePlayer", position |-> position]
LeaseId == [type |-> "LeaseId"]

\* Vec::get(i): Some(&v[i]) when in range, None otherwise
lods_get(lods, i) == IF i + 1 \in DOMAIN lods THEN Some(lods[i + 1]) ELSE None

\* client.send(msg) on the registered client's Sender
send_to(client, msg) == [chan EXCEPT ![client] = Append(@, msg)]

ServerNew ==
  /\ all_blocks = <<>>
  /\ to_client = None
  /\ client_endpoints = <<>>
  /\ chan = [c \in Clients |-> <<>>]
  /\ ups_to_gaia = <<>>
  /\ ups_from_gaia = <<>>
  /\ owner_store = {}
  /\ player = [position |-> 0, is_jumping |-> FALSE, accel |-> [x |-> 0, y |-> 0, z |-> 0],
               walked_y |-> 0, rotation |-> [lateral |-> 0, vertical |-> 0]]
  /\ panicked = "no"
  /\ nrequests = 0

\* nobody holds the terrain mutex and no handler is running
LockFree ==
  /\ lock = "free"
  /\ pc = "idle"
  /\ cur = <<>>

\* TerrainVRAMBuffers::new
VramNew ==
  /\ id_to_index = <<>>
  /\ index_to_id = <<>>
  /\ length = 0
  /\ vertex_positions = <<>>
  /\ normals = <<>>
  /\ colors = <<>>
  /\ last_call = [op |-> "new"]

\* server.inform_client(&client)
inform_client(ch, client) == [ch EXCEPT ![client] = Append(@, LeaseId)]

\* ClientToServer::Init(client_url)
ClientInitUpdatesNew(client_url) ==
  /\ panicked = "no"
  /\ UNCHANGED <<cubeVars, lockVars, vramVars>>
  /\ Len(client_endpoints) < MaxInits
  /\ client_endpoints' = Append(client_endpoints, client_url)
  /\ chan' = inform_client(
       IF to_client # None THEN send_to(client_url, UpdatePlayer(player.position)) ELSE chan,
       client_url)
  /\ to_client' = Some(client_url)
  /\ UNCHANGED <<all_blocks, ups_to_gaia, ups_from_gaia, owner_store, player, panicked,
                 nrequests>>
ClientInit(client_url) ==
  /\ panicked = "no"
  /\ UNCHANGED <<cubeVars, lockVars, vramVars>>
  /\ Len(client_endpoints) < MaxInits
  /\ client_endpoints' = Append(client_endpoints, client_url)
  /\ chan' = inform_client(
       IF to_client # None THEN send_to(to_client[1], UpdatePlayer(player.position)) ELSE chan,
       client_url)
  /\ to_client' = Some(client_url)
  /\ UNCHANGED <<all_blocks, ups_to_gaia, ups_from_gaia, owner_store, player, panicked,
                 nrequests>>

\* ClientToServer::RequestBlock(position, lod), sent by client `c`
RequestBlockAlwaysLoads(c, position, lod) ==
  /\ panicked = "no"
  /\ UNCHANGED <<cubeVars, lockVars, vramVars>>
  /\ nrequests < MaxRequests
  /\ nrequests' = nrequests + 1
  /\ LET block == IF position \in DOMAIN all_blocks THEN Some(all_blocks[position]) ELSE None
         load == Load(position, lod, ForClient, c, to_client = Some(c))
         entry == IF block = None THEN None ELSE lods_get(block[1], lod)
     IN IF entry # None /\ entry[1] # None
          THEN /\ ups_to_gaia' = Append(ups_to_gaia, load)
               /\ IF to_client # None
                    THEN chan' = send_to(to_client[1],
                                         AddBlock(position, entry[1][1], lod, c,
                                                  to_client = Some(c), "RequestBlock"))
                    ELSE UNCHANGED chan
          ELSE /\ ups_to_gaia' = Append(ups_to_gaia, load)
               /\ UNCHANGED chan
  /\ UNCHANGED <<all_blocks, to_client, client_endpoints, ups_from_gaia, owner_store,
                 player, panicked>>
RequestBlockNoLodFallback(c, position, lod) ==
  /\ panicked = "no"
  /\ UNCHANGED <<cubeVars, lockVars, vramVars>>
  /\ nrequests < MaxRequests
  /\ nrequests' = nrequests + 1
  /\ LET block == IF position \in DOMAIN all_blocks THEN Some(all_blocks[position]) ELSE None
         load == Load(position, lod, ForClient, c, to_client = Some(c))
     IN IF block = None
          THEN /\ ups_to_gaia' = Append(ups_to_gaia, load)
               /\ UNCHANGED chan
          ELSE LET entry == lods_get(block[1], lod)
               IN IF entry # None /\ entry[1] # None
                    THEN /\ IF to_client # None
                              THEN chan' = send_to(to_client[1],
                                                   AddBlock(position, entry[1][1], lod, c,
                                                            to_client = Some(c), "RequestBlock"))
                              ELSE UNCHANGED chan
                         /\ UNCHANGED ups_to_gaia
                    ELSE UNCHANGED <<ups_to_gaia, chan>>
  /\ UNCHANGED <<all_blocks, to_client, client_endpoints, ups_from_gaia, owner_store,
                 player, panicked>>
RequestBlock(c, position, lod) ==
  /\ panicked = "no"
  /\ UNCHANGED <<cubeVars, lockVars, vramVars>>
  /\ nrequests < MaxRequests
  /\ nrequests' = nrequests + 1
  /\ LET block == IF position \in DOMAIN all_blocks THEN Some(all_blocks[position]) ELSE None
         load == Load(position, lod, ForClient, c, to_client = Some(c))
     IN IF block = None
          THEN /\ ups_to_gaia' = Append(ups_to_gaia, load)
               /\ UNCHANGED chan
          ELSE LET entry == lods_get(block[1], lod)
               IN IF entry # None /\ entry[1] # None
                    THEN /\ IF to_client # None
                              THEN chan' = send_to(to_client[1],
                                                   AddBlock(position, entry[1][1], lod, c,
                                                            to_client = Some(c), "RequestBlock"))
                              ELSE UNCHANGED chan
                         /\ UNCHANGED ups_to_gaia
                    ELSE /\ ups_to_gaia' = Append(ups_to_gaia, load)
                         /\ UNCHANGED chan
  /\ UNCHANGED <<all_blocks, to_client, client_endpoints, ups_from_gaia, owner_store,
                 player, panicked>>

\* a Load for (position, lod) that gaia has not answered, or whose answer the server
\* has not applied
Outstanding(position, lod) ==
  {i \in DOMAIN ups_to_gaia :
     ups_to_gaia[i].position = position /\ ups_to_gaia[i].lod = lod}
IsPending(position, lod) ==
  \/ Outstanding(position, lod) # {}
  \/ \E i \in DOMAIN ups_from_gaia :
       ups_from_gaia[i].position = position /\ ups_from_gaia[i].lod = lod
IsPresent(position, lod) ==
  /\ position \in DOMAIN all_blocks
  /\ lods_get(all_blocks[position], lod) # None
  /\ lods_get(all_blocks[position], lod)[1] # None

\* the server asks for a block for one of its own owners: request(cell, lod, Local(owner))
RequestLocal(position, lod, owner) ==
  /\ panicked = "no"
  /\ UNCHANGED <<cubeVars, lockVars, vramVars>>
  /\ nrequests < MaxRequests
  /\ nrequests' = nrequests + 1
  /\ <<position, lod, owner>> \notin owner_store
  /\ ~IsPresent(position, lod)
  /\ ~IsPending(position, lod)
  /\ ups_to_gaia' = Append(ups_to_gaia, Load(position, lod, Local(owner), "server", FALSE))
  /\ UNCHANGED <<all_blocks, to_client, client_endpoints, chan, ups_from_gaia, owner_store,
                 player, panicked>>

\* gaia takes the oldest Load, generates the block into the terrain and reports Loaded
\* with the same position, lod and reason; a new or too short lods Vec gets `n` entries
GaiaLoad(n) ==
  /\ ups_to_gaia # <<>>
  /\ UNCHANGED <<cubeVars, lockVars, vramVars>>
  /\ LET up == Head(ups_to_gaia)
         old == IF up.position \in DOMAIN all_blocks THEN all_blocks[up.position] ELSE <<>>
         len == IF Len(old) > up.lod THEN Len(old) ELSE n
         lods == [i \in 1..len |->
                    IF i = up.lod + 1 THEN Some(TerrainBlock(up.position, up.lod))
                    ELSE IF i \in DOMAIN old THEN old[i] ELSE None]
     IN /\ n > up.lod
        /\ Len(old) > up.lod => n = Len(old)
        /\ all_blocks' = [q \in DOMAIN all_blocks \cup {up.position} |->
                            IF q = up.position THEN lods ELSE all_blocks[q]]
        /\ ups_from_gaia' = Append(ups_from_gaia, up)
  /\ ups_to_gaia' = Tail(ups_to_gaia)
  /\ UNCHANGED <<to_client, client_endpoints, chan, owner_store, player, panicked,
                 nrequests>>

\* server.terrain_game_loader.load(.., &position, LOD::LodIndex(lod_index), owner, ..)
terrain_game_loader_load(store, position, lod_index, owner) ==
  store \cup {<<position, lod_index, owner>>}

\* apply_gaia_to_server(GaiaToServer::Loaded(position, lod_index, load_reason))
ApplyGaiaToServerLoadsAlways ==
  /\ panicked = "no"
  /\ UNCHANGED <<cubeVars, lockVars, vramVars>>
  /\ ups_from_gaia # <<>>
  /\ ups_from_gaia' = Tail(ups_from_gaia)
  /\ LET up == Head(ups_from_gaia)
     IN IF up.reason.kind = "Local"
          THEN /\ owner_store' =
                    terrain_game_loader_load(owner_store, up.position, up.lod, up.reason.owner)
               /\ UNCHANGED <<chan, panicked>>
          ELSE /\ owner_store' =
                    terrain_game_loader_load(owner_store, up.position, up.lod, "owner0")
               /\ IF up.position \notin DOMAIN all_blocks
                    THEN panicked' = "all_blocks.get" /\ UNCHANGED chan
                    ELSE LET entry == lods_get(all_blocks[up.position], up.lod)
                         IN IF entry = None
                              THEN panicked' = "lods[lod_index]" /\ UNCHANGED chan
                            ELSE IF entry[1] = None
                              THEN panicked' = "lods[lod_index].as_ref" /\ UNCHANGED chan
                            ELSE IF to_client = None
                              THEN panicked' = "to_client.as_mut" /\ UNCHANGED chan
                            ELSE /\ chan' = send_to(to_client[1],
                                                    AddBlock(up.position, entry[1][1], up.lod,
                                                             up.origin, up.registered, "Loaded"))
                                 /\ UNCHANGED panicked
  /\ UNCHANGED <<all_blocks, to_client, client_endpoints, ups_to_gaia, player, nrequests>>
ApplyGaiaToServer ==
  /\ panicked = "no"
  /\ UNCHANGED <<cubeVars, lockVars, vramVars>>
  /\ ups_from_gaia # <<>>
  /\ ups_from_gaia' = Tail(ups_from_gaia)
  /\ LET up == Head(ups_from_gaia)
     IN IF up.reason.kind = "Local"
          THEN /\ owner_store' =
                    terrain_game_loader_load(owner_store, up.position, up.lod, up.reason.owner)
               /\ UNCHANGED <<chan, panicked>>
          ELSE /\ UNCHANGED owner_store
               /\ IF up.position \notin DOMAIN all_blocks
                    THEN panicked' = "all_blocks.get" /\ UNCHANGED chan
                    ELSE LET entry == lods_get(all_blocks[up.position], up.lod)
                         IN IF entry = None
                              THEN panicked' = "lods[lod_index]" /\ UNCHANGED chan
                            ELSE IF entry[1] = None
                              THEN panicked' = "lods[lod_index].as_ref" /\ UNCHANGED chan
                            ELSE IF to_client = None
                              THEN panicked' = "to_client.as_mut" /\ UNCHANGED chan
                            ELSE /\ chan' = send_to(to_client[1],
                                                    AddBlock(up.position, entry[1][1], up.lod,
                                                             up.origin, up.registered, "Loaded"))
                                 /\ UNCHANGED panicked
  /\ UNCHANGED <<all_blocks, to_client, client_endpoints, ups_to_gaia, player, nrequests>>

\* ---------------------------------------------- specification SpecServer
InitServer ==
  /\ from = Point3(0, 0, 0)
  /\ to = Point3(0, 0, 0)
  /\ radius = 0
  /\ op = "none"
  /\ ret = <<>>
  /\ rev = <<>>
  /\ resident = {}
  /\ ServerNew
  /\ LockFree
  /\ VramNew

NextServer ==
  \/ \E client_url \in Clients : ClientInit(client_url)
  \/ \E c \in Clients, position \in Positions, lod \in Lods : RequestBlock(c, position, lod)
  \/ \E position \in Positions, lod \in Lods, owner \in Owners :
       RequestLocal(position, lod, owner)
  \/ \E n \in 1..Cardinality(Lods) : GaiaLoad(n)
  \/ ApplyGaiaToServer

SpecServer == InitServer /\ [][NextServer]_vars

\* the offsets of the reference fixture of test_simple_diff, in the order of the source
test_simple_diff_offsets ==
  << <<1, 0, 0>>, <<1, 1, 0>>, <<1, -1, 0>>,
     <<1, 0, 1>>, <<1, 1, 1>>, <<1, -1, 1>>,
     <<1, 0, -1>>, <<1, 1, -1>>, <<1, -1, -1>>,
     <<0, -1, 0>>, <<0, 0, 0>>, <<1, -1, 0>>, <<1, 0, 0>>, <<-1, -1, 0>>, <<-1, 0, 0>>,
     <<0, -1, -1>>, <<0, 0, -1>>, <<1, -1, -1>>, <<1, 0, -1>>, <<-1, -1, -1>>, <<-1, 0, -1>>,
     <<0, -1, 1>>, <<0, 0, 1>>, <<1, -1, 1>>, <<1, 0, 1>>, <<-1, -1, 1>>, <<-1, 0, 1>> >>

\* .iter().map(|a| p_of_a(a) + from.to_vec()).collect() into a HashSet
test_simple_diff_expected(origin) ==
  {Point3(origin.x + test_simple_diff_offsets[i][1],
          origin.y + test_simple_diff_offsets[i][2],
          origin.z + test_simple_diff_offsets[i][3]) : i \in DOMAIN test_simple_diff_offsets}

\* ---------------------------------------------- specification SpecPlayer
\* the arms of apply_client_to_server that act on server.player

\* the 0.3 of the jump arms, in tenths
JumpBoost == 3

\* ClientToServer::StartJump
StartJumpUnguarded ==
  /\ panicked = "no"
  /\ player' = [player EXCEPT !.is_jumping = TRUE, !.accel.y = @ + JumpBoost]
  /\ UNCHANGED <<all_blocks, to_client, client_endpoints, chan, ups_to_gaia, ups_from_gaia,
                 owner_store, panicked, nrequests>>
  /\ UNCHANGED <<cubeVars, lockVars, vramVars>>
StartJump ==
  /\ panicked = "no"
  /\ IF ~player.is_jumping
       THEN player' = [player EXCEPT !.is_jumping = TRUE, !.accel.y = @ + JumpBoost]
       ELSE UNCHANGED player
  /\ UNCHANGED <<all_blocks, to_client, client_endpoints, chan, ups_to_gaia, ups_from_gaia,
                 owner_store, panicked, nrequests>>
  /\ UNCHANGED <<cubeVars, lockVars, vramVars>>

\* ClientToServer::StopJump
StopJump ==
  /\ panicked = "no"
  /\ IF player.is_jumping
       THEN player' = [player EXCEPT !.is_jumping = FALSE, !.accel.y = @ - JumpBoost]
       ELSE UNCHANGED player
  /\ UNCHANGED <<all_blocks, to_client, client_endpoints, chan, ups_to_gaia, ups_from_gaia,
                 owner_store, panicked, nrequests>>
  /\ UNCHANGED <<cubeVars, lockVars, vramVars>>

\* ClientToServer::Walk(v): add a vector to the player's acceleration
Walk(v) ==
  /\ panicked = "no"
  /\ player.accel.x + v.x \in (-MaxWalk)..MaxWalk
  /\ player.walked_y + v.y \in (-MaxWalk)..MaxWalk
  /\ player.accel.z + v.z \in (-MaxWalk)..MaxWalk
  /\ player' = [player EXCEPT !.accel = [x |-> @.x + v.x, y |-> @.y + v.y, z |-> @.z + v.z],
                              !.walked_y = @ + v.y]
  /\ UNCHANGED <<all_blocks, to_client, client_endpoints, chan, ups_to_gaia, ups_from_gaia,
                 owner_store, panicked, nrequests>>
  /\ UNCHANGED <<cubeVars, lockVars, vramVars>>

\* ClientToServer::RotatePlayer(v): rotate_lateral(v.x), then rotate_vertical(v.y)
RotatePlayer(v) ==
  /\ panicked = "no"
  /\ player' = [player EXCEPT !.rotation = [lateral |-> (@.lateral + v.x) % 4,
                                             vertical |-> (@.vertical + v.y) % 4]]
  /\ UNCHANGED <<all_blocks, to_client, client_endpoints, chan, ups_to_gaia, ups_from_gaia,
                 owner_store, panicked, nrequests>>
  /\ UNCHANGED <<cubeVars, lockVars, vramVars>>

\* the vectors the client sends: unit steps
WalkVectors == {Point3(vx, vy, vz) : vx \in (-1)..1, vy \in (-1)..1, vz \in (-1)..1}
RotateVectors == {[x |-> vx, y |-> vy] : vx \in 0..1, vy \in 0..1}

NextPlayer ==
  \/ StartJump
  \/ StopJump
  \/ \E v \in WalkVectors : Walk(v)
  \/ \E v \in RotateVectors : RotatePlayer(v)

SpecPlayer == InitServer /\ [][NextPlayer]_vars

\* ------------------------------------------------ specification SpecVram
\* TerrainVRAMBuffers: push and swap_remove

EntityIds == 1..MaxIds

\* HashMap::insert(k, v) and HashMap::remove(k)
map_insert(m, k, v) == [x \in DOMAIN m \cup {k} |-> IF x = k THEN v ELSE m[x]]
map_remove(m, k) == [x \in DOMAIN m \ {k} |-> m[x]]

\* Vec::swap_remove(idx): the last element takes the place of element idx (0-based)
vec_swap_remove(v, idx) ==
  [i \in 1..(Len(v) - 1) |-> IF i = idx + 1 THEN v[Len(v)] ELSE v[i]]

\* BufferTexture's buffer.push(gl, xs): false when xs does not fit
buffer_fits(buf, xs) == Len(buf) + Len(xs) <= MaxPolygons
\* BufferTexture's buffer.swap_remove(gl, idx, 1)
buffer_swap_remove(buf, idx) == vec_swap_remove(buf, idx)

\* for &id in ids.iter() { id_to_index.insert(id, index_to_id.len()); index_to_id.push(id) }
RECURSIVE insert_ids(_, _, _)
insert_ids(m, v, ids) ==
  IF ids = <<>> THEN [id_to_index |-> m, index_to_id |-> v]
  ELSE insert_ids(map_insert(m, Head(ids), Len(v)), Append(v, Head(ids)), Tail(ids))

\* TerrainVRAMBuffers::push(gl, vertices, normals, colors, ids); the polygon data of an
\* entity is represented by the entity's id
push_ids_first(ids) ==
  /\ last_call.op # "panic"
  /\ IF ~buffer_fits(vertex_positions, ids)
       THEN /\ last_call' = [op |-> "push", ret |-> FALSE]
            /\ id_to_index' = insert_ids(id_to_index, index_to_id, ids).id_to_index
            /\ index_to_id' = insert_ids(id_to_index, index_to_id, ids).index_to_id
            /\ length' = length + 3 * Len(ids)
            /\ UNCHANGED <<vertex_positions, normals, colors>>
       ELSE /\ vertex_positions' = vertex_positions \o ids
            /\ normals' = normals \o ids
            /\ colors' = colors \o ids
            /\ id_to_index' = insert_ids(id_to_index, index_to_id, ids).id_to_index
            /\ index_to_id' = insert_ids(id_to_index, index_to_id, ids).index_to_id
            /\ length' = length + 3 * Len(ids)
            /\ last_call' = [op |-> "push", ret |-> TRUE]
  /\ UNCHANGED <<cubeVars, serverVars, lockVars>>
push(ids) ==
  /\ last_call.op # "panic"
  /\ IF ~buffer_fits(vertex_positions, ids)
       THEN /\ last_call' = [op |-> "push", ret |-> FALSE]
            /\ UNCHANGED <<id_to_index, index_to_id, length, vertex_positions, normals, colors>>
       ELSE IF ~buffer_fits(normals, ids) \/ ~buffer_fits(colors, ids)
         THEN /\ last_call' = [op |-> "panic"]
              /\ vertex_positions' = vertex_positions \o ids
              /\ normals' = IF buffer_fits(normals, ids) THEN normals \o ids ELSE normals
              /\ UNCHANGED <<id_to_index, index_to_id, length, colors>>
         ELSE /\ vertex_positions' = vertex_positions \o ids
              /\ normals' = normals \o ids
              /\ colors' = colors \o ids
              /\ id_to_index' = insert_ids(id_to_index, index_to_id, ids).id_to_index
              /\ index_to_id' = insert_ids(id_to_index, index_to_id, ids).index_to_id
              /\ length' = length + 3 * Len(ids)
              /\ last_call' = [op |-> "push", ret |-> TRUE]
  /\ UNCHANGED <<cubeVars, serverVars, lockVars>>

\* TerrainVRAMBuffers::swap_remove(gl, id); `id` must be present in the buffers
swap_remove_reinserts(id) ==
  /\ last_call.op # "panic"
  /\ id \in DOMAIN id_to_index
  /\ LET idx == id_to_index[id]
         swapped_id == index_to_id[Len(index_to_id)]
     IN /\ index_to_id' = vec_swap_remove(index_to_id, idx)
        /\ id_to_index' = map_insert(map_remove(id_to_index, id), swapped_id, idx)
        /\ length' = length - 3
        /\ vertex_positions' = buffer_swap_remove(vertex_positions, idx)
        /\ normals' = buffer_swap_remove(normals, idx)
        /\ colors' = buffer_swap_remove(colors, idx)
        /\ last_call' = [op |-> "swap_remove", idx |-> idx]
  /\ UNCHANGED <<cubeVars, serverVars, lockVars>>
swap_remove(id) ==
  /\ last_call.op # "panic"
  /\ id \in DOMAIN id_to_index
  /\ LET idx == id_to_index[id]
         swapped_id == index_to_id[Len(index_to_id)]
     IN /\ index_to_id' = vec_swap_remove(index_to_id, idx)
        /\ id_to_index' = IF id # swapped_id
                            THEN map_insert(map_remove(id_to_index, id), swapped_id, idx)
                            ELSE map_remove(id_to_index, id)
        /\ length' = length - 3
        /\ vertex_positions' = buffer_swap_remove(vertex_positions, idx)
        /\ normals' = buffer_swap_remove(normals, idx)
        /\ colors' = buffer_swap_remove(colors, idx)
        /\ last_call' = [op |-> "swap_remove", idx |-> idx]
  /\ UNCHANGED <<cubeVars, serverVars, lockVars>>

\* the ids of one call of push: distinct, none of them stored
Batches ==
  {ids \in UNION {[1..n -> EntityIds \ DOMAIN id_to_index] : n \in 1..MaxBatch} :
     \A i, j \in DOMAIN ids : i # j => ids[i] # ids[j]}

InitVram ==
  /\ VramNew
  /\ ServerNew
  /\ LockFree
  /\ from = Point3(0, 0, 0)
  /\ to = Point3(0, 0, 0)
  /\ radius = 0
  /\ op = "none"
  /\ ret = <<>>
  /\ rev = <<>>
  /\ resident = {}

NextVram ==
  \/ \E ids \in Batches : push(ids)
  \/ \E id \in EntityIds : swap_remove(id)

SpecVram == InitVram /\ [][NextVram]_vars

\* ------------------------------------------------ specification SpecLock
\* the RequestBlock arm and the ForClient arm statement by statement, with gaia
\* taking the same terrain mutex to generate a block

\* what block.lods.get(lod) / lods[lod_index] yields for a position: Some(block) or None
EntryOf(position, lod) ==
  IF IsPresent(position, lod) THEN Some(all_blocks[position][lod + 1][1]) ELSE None

\* RequestBlock arm: server.terrain_game_loader.terrain.lock().unwrap()
LockForRequestBlock(c, position, lod) ==
  /\ panicked = "no"
  /\ pc = "idle"
  /\ lock = "free"
  /\ nrequests < MaxRequests
  /\ nrequests' = nrequests + 1
  /\ lock' = "server"
  /\ pc' = "locked"
  /\ cur' = [kind |-> "RequestBlock", c |-> c, position |-> position, lod |-> lod,
             registered |-> (to_client = Some(c)), seen |-> None]
  /\ UNCHANGED <<all_blocks, to_client, client_endpoints, chan, ups_to_gaia, ups_from_gaia,
                 owner_store, player, panicked>>
  /\ UNCHANGED <<cubeVars, vramVars>>

\* ForClient arm: server.terrain_game_loader.terrain.lock().unwrap()
LockForLoaded ==
  /\ panicked = "no"
  /\ pc = "idle"
  /\ lock = "free"
  /\ ups_from_gaia # <<>>
  /\ Head(ups_from_gaia).reason = ForClient
  /\ ups_from_gaia' = Tail(ups_from_gaia)
  /\ lock' = "server"
  /\ pc' = "locked"
  /\ cur' = [kind |-> "Loaded", c |-> Head(ups_from_gaia).origin,
             position |-> Head(ups_from_gaia).position, lod |-> Head(ups_from_gaia).lod,
             registered |-> Head(ups_from_gaia).registered, seen |-> None]
  /\ UNCHANGED <<all_blocks, to_client, client_endpoints, chan, ups_to_gaia, owner_store,
                 player, panicked, nrequests>>
  /\ UNCHANGED <<cubeVars, vramVars>>

\* terrain.all_blocks.get(&position) and the lookup in block.lods
CheckPresenceDropsGuard ==
  /\ panicked = "no"
  /\ pc = "locked"
  /\ lock' = "free"
  /\ IF cur.kind = "Loaded" /\ EntryOf(cur.position, cur.lod) = None
       THEN /\ panicked' = (IF cur.position \in DOMAIN all_blocks
                              THEN "lods[lod_index]" ELSE "all_blocks.get")
            /\ UNCHANGED <<pc, cur>>
       ELSE /\ cur' = [cur EXCEPT !.seen = EntryOf(cur.position, cur.lod)]
            /\ pc' = "checked"
            /\ UNCHANGED panicked
  /\ UNCHANGED <<all_blocks, to_client, client_endpoints, chan, ups_to_gaia, ups_from_gaia,
                 owner_store, player, nrequests>>
  /\ UNCHANGED <<cubeVars, vramVars>>
CheckPresence ==
  /\ panicked = "no"
  /\ pc = "locked"
  /\ IF cur.kind = "Loaded" /\ EntryOf(cur.position, cur.lod) = None
       THEN /\ panicked' = (IF cur.position \in DOMAIN all_blocks
                              THEN "lods[lod_index]" ELSE "all_blocks.get")
            /\ UNCHANGED <<pc, cur>>
       ELSE /\ cur' = [cur EXCEPT !.seen = EntryOf(cur.position, cur.lod)]
            /\ pc' = "checked"
            /\ UNCHANGED panicked
  /\ UNCHANGED <<all_blocks, to_client, client_endpoints, chan, ups_to_gaia, ups_from_gaia,
                 owner_store, player, nrequests, lock>>
  /\ UNCHANGED <<cubeVars, vramVars>>

\* ups_to_gaia.send(Load(..)) or client.send(AddBlock(..)), as the check decided
SendResult ==
  /\ panicked = "no"
  /\ pc = "checked"
  /\ IF cur.seen = None
       THEN /\ ups_to_gaia' = Append(ups_to_gaia, Load(cur.position, cur.lod, ForClient,
                                                       cur.c, cur.registered))
            /\ pc' = "sent"
            /\ UNCHANGED <<chan, panicked>>
       ELSE IF to_client # None
         THEN /\ chan' = send_to(to_client[1],
                                 AddBlock(cur.position, cur.seen[1], cur.lod, cur.c,
                                          cur.registered, cur.kind))
              /\ pc' = "sent"
              /\ UNCHANGED <<ups_to_gaia, panicked>>
         ELSE IF cur.kind = "Loaded"
           THEN panicked' = "to_client.as_mut" /\ UNCHANGED <<chan, ups_to_gaia, pc>>
           ELSE pc' = "sent" /\ UNCHANGED <<chan, ups_to_gaia, panicked>>
  /\ UNCHANGED <<all_blocks, to_client, client_endpoints, ups_from_gaia, owner_store, player,
                 nrequests, lock, cur>>
  /\ UNCHANGED <<cubeVars, vramVars>>

\* the MutexGuard `terrain` goes out of scope at the end of the arm
Unlock ==
  /\ pc = "sent"
  /\ pc' = "idle"
  /\ lock' = "free"
  /\ cur' = <<>>
  /\ UNCHANGED <<serverVars, cubeVars, vramVars>>

\* gaia takes the terrain mutex, generates blocks and releases it
GaiaLock ==
  /\ lock = "free"
  /\ ups_to_gaia # <<>>
  /\ lock' = "gaia"
  /\ UNCHANGED <<pc, cur>>
  /\ UNCHANGED <<serverVars, cubeVars, vramVars>>

GaiaUnlock ==
  /\ lock = "gaia"
  /\ lock' = "free"
  /\ UNCHANGED <<pc, cur>>
  /\ UNCHANGED <<serverVars, cubeVars, vramVars>>

NextLock ==
  \/ \E client_url \in Clients : pc = "idle" /\ ClientInit(client_url)
  \/ \E c \in Clients, position \in Positions, lod \in Lods :
       LockForRequestBlock(c, position, lod)
  \/ LockForLoaded
  \/ CheckPresence
  \/ SendResult
  \/ Unlock
  \/ GaiaLock
  \/ \E n \in 1..Cardinality(Lods) : lock = "gaia" /\ GaiaLoad(n)
  \/ GaiaUnlock

SpecLock == InitServer /\ [][NextLock]_vars

\* ------------------------------------------- specification SpecOneClient
\* one client registers and stays the registered client; every RequestBlock comes from
\* it; gaia and the server keep taking messages off their channels
NextOneClient ==
  \/ \E client_url \in Clients : to_client = None /\ ClientInit(client_url)
  \/ \E c \in Clients, position \in Positions, lod \in Lods :
       to_client = Some(c) /\ RequestBlock(c, position, lod)
  \/ \E position \in Positions, lod \in Lods, owner \in Owners :
       RequestLocal(position, lod, owner)
  \/ \E n \in 1..Cardinality(Lods) : GaiaLoad(n)
  \/ ApplyGaiaToServer

SpecOneClient ==
  /\ InitServer
  /\ [][NextOneClient]_vars
  /\ WF_vars(\E n \in 1..Cardinality(Lods) : GaiaLoad(n))
  /\ WF_vars(ApplyGaiaToServer)

\* ------------------------------------------------ specification SpecCube
\* the centers the repository's tests call cube_shell and cube_diff with
Centers == {Point3(0, 0, 0), Point3(2, 1, -4), Point3(2, 0, -3), Point3(-5, 1, -7)}
Deltas == (-MaxDelta)..MaxDelta
\* radius is an i32: the callers pass 0..MaxRadius, -1 stands for a negative radius
Radii == (-1)..MaxRadius

InitCube ==
  /\ from \in Centers
  /\ \E dx \in Deltas, dy \in Deltas, dz \in Deltas :
       to = Point3(from.x + dx, from.y + dy, from.z + dz)
  /\ radius \in Radii
  /\ op = "none"
  /\ ret = <<>>
  /\ rev = <<>>
  /\ resident = {}
  /\ ServerNew
  /\ LockFree
  /\ VramNew

CallCubeShell ==
  /\ op = "none"
  /\ op' = "cube_shell"
  /\ ret' = cube_shell(from, radius)
  /\ UNCHANGED <<from, to, radius, rev, resident>>
  /\ UNCHANGED <<serverVars, lockVars, vramVars>>

CallCubeDiff ==
  /\ op = "none"
  /\ op' = "cube_diff"
  /\ ret' = cube_diff(from, to, radius)
  /\ rev' = cube_diff(to, from, radius)
  /\ UNCHANGED <<from, to, radius, resident>>
  /\ UNCHANGED <<serverVars, lockVars, vramVars>>

NextCube == CallCubeShell \/ CallCubeDiff

SpecCube == InitCube /\ [][NextCube]_vars

\* ------------------------------------------------------- geometric notions
abs(n) == IF n < 0 THEN -n ELSE n
Chebyshev(p, q) == max(abs(p.x - q.x), max(abs(p.y - q.y), abs(p.z - q.z)))
Cube(c, r) ==
  {Point3(px, py, pz) : px \in (c.x - r)..(c.x + r), py \in (c.y - r)..(c.y + r),
                        pz \in (c.z - r)..(c.z + r)}
NoDups(s) == Cardinality(ToSet(s)) = Len(s)

\* ------------------------------------------------ specification SpecMove
ObserverCenters == {Point3(cx, cy, cz) : cx \in 0..MaxCenter, cy \in 0..1, cz \in 0..1}

InitMove ==
  /\ from \in ObserverCenters
  /\ to = from
  /\ radius \in 0..MaxRadius
  /\ op = "none"
  /\ ret = <<>>
  /\ rev = <<>>
  /\ resident = Cube(from, radius)
  /\ ServerNew
  /\ LockFree
  /\ VramNew

\* on_movement(owner, new_center): leaving = diff(old, new), entering = diff(new, old);
\* the leaving cells are unloaded and the entering cells are loaded
on_movement(new_center) ==
  /\ new_center # to
  /\ op' = "on_movement"
  /\ from' = to
  /\ to' = new_center
  /\ ret' = cube_diff(to, new_center, radius)
  /\ rev' = cube_diff(new_center, to, radius)
  /\ resident' = (resident \ ToSet(ret')) \cup ToSet(rev')
  /\ UNCHANGED radius
  /\ UNCHANGED <<serverVars, lockVars, vramVars>>

NextMove == \E new_center \in ObserverCenters : on_movement(new_center)

SpecMove == InitMove /\ [][NextMove]_vars

\* ---------------------------------------------------------------- claims
Vacated(c, f, t, r) == abs(c - f) <= r /\ abs(c - t) > r
DiffersOnAllAxes == from.x # to.x /\ from.y # to.y /\ from.z # to.z
Overlapping == Cube(from, radius) \cap Cube(to, radius) # {}

\* C1: cube_diff(from, to, radius) returns, as a set, exactly the cells of the
\* cube of radius `radius` around `from` that are not in the cube around `to`.
C1_DiffIsSetDifference ==
  op = "cube_diff" => ToSet(ret) = Cube(from, radius) \ Cube(to, radius)

C1_Witness ==
  /\ op = "cube_diff"
  /\ radius = 2
  /\ DiffersOnAllAxes
  /\ Overlapping
  /\ ret # <<>>

\* C2: cube_shell(center, 0) is exactly {center}; for radius >= 1 cube_shell
\* returns exactly the cells at Chebyshev distance `radius` from the center.
C2_ShellIsSurface ==
  op = "cube_shell" =>
    IF radius = 0
      THEN ToSet(ret) = {from}
      ELSE /\ \A i \in DOMAIN ret : Chebyshev(ret[i], from) = radius
           /\ \A p \in Cube(from, radius) : Chebyshev(p, from) = radius => p \in ToSet(ret)

C2_Witness ==
  /\ op = "cube_shell"
  /\ radius = 2
  /\ Len(ret) > 1

\* C3: for radius >= 1 the Vec returned by cube_shell has (2r+1)^3 - (2r-1)^3
\* elements, none of them twice, and its three face passes are pairwise disjoint.
C3_ShellCountNoDups ==
  (op = "cube_shell" /\ radius >= 1) =>
    LET w == 2 * radius + 1
        xs == ToSet(shell_x_faces(from, radius))
        ys == ToSet(shell_y_faces(from, radius))
        zs == ToSet(shell_z_faces(from, radius))
    IN /\ Len(ret) = w * w * w - (w - 2) * (w - 2) * (w - 2)
       /\ NoDups(ret)
       /\ xs \cap ys = {}
       /\ xs \cap zs = {}
       /\ ys \cap zs = {}

C3_Witness ==
  /\ op = "cube_shell"
  /\ radius = 2
  /\ Len(ret) = 98

\* C4: the Vec returned by cube_diff contains no cell twice; a cell vacated on
\* several axes is emitted only by the pass of the first such axis (x, y, z).
C4_DiffNoDups ==
  op = "cube_diff" =>
    LET xs == ToSet(diff_x_pass(from, to, radius))
        ys == ToSet(diff_y_pass(from, to, radius))
        zs == ToSet(diff_z_pass(from, to, radius))
    IN /\ NoDups(ret)
       /\ xs \cap ys = {} /\ xs \cap zs = {} /\ ys \cap zs = {}
       /\ \A p \in ToSet(ret) :
            IF Vacated(p.x, from.x, to.x, radius) THEN p \in xs
            ELSE IF Vacated(p.y, from.y, to.y, radius) THEN p \in ys
            ELSE p \in zs

C4_Witness ==
  /\ op = "cube_diff"
  /\ radius = 2
  /\ \E i \in DOMAIN ret :
       /\ Vacated(ret[i].x, from.x, to.x, radius)
       /\ Vacated(ret[i].y, from.y, to.y, radius)
       /\ Vacated(ret[i].z, from.z, to.z, radius)

\* C5: cube_diff(a, a, r) is empty, and an axis on which from and to agree
\* contributes no cell in its own pass.
C5_NoDiffWhenEqual ==
  op = "cube_diff" =>
    /\ from = to => ret = <<>>
    /\ from.x = to.x => diff_x_pass(from, to, radius) = <<>>
    /\ from.y = to.y => diff_y_pass(from, to, radius) = <<>>
    /\ from.z = to.z => diff_z_pass(from, to, radius) = <<>>

C5_Witness ==
  /\ op = "cube_diff"
  /\ from = to
  /\ radius = 2
  /\ ret = <<>>

\* C6: no cell lying in both cubes appears in cube_diff(a, b, r) or in
\* cube_diff(b, a, r), so the two diffs are disjoint from each other.
C6_SharedCellsStay ==
  op = "cube_diff" =>
    LET shared == Cube(from, radius) \cap Cube(to, radius)
    IN /\ ToSet(ret) \cap shared = {}
       /\ ToSet(rev) \cap shared = {}
       /\ ToSet(ret) \cap ToSet(rev) = {}

C6_Witness ==
  /\ op = "cube_diff"
  /\ Overlapping
  /\ radius >= 1
  /\ ret # <<>>
  /\ rev # <<>>

LoadsInFlight(position, lod) ==
  Cardinality(Outstanding(position, lod))
    + Cardinality({i \in DOMAIN ups_from_gaia :
                     ups_from_gaia[i].position = position /\ ups_from_gaia[i].lod = lod})
AddBlocks(c, via) ==
  {i \in DOMAIN chan[c] : chan[c][i].type = "AddBlock" /\ chan[c][i].via = via}

\* C7: several requests for the same absent (cell, lod) before any completion lead to
\* exactly one Load: never are two Loads for the same (cell, lod) outstanding.
C7_AtMostOneLoadOutstanding ==
  \A position \in Positions, lod \in Lods : LoadsInFlight(position, lod) <= 1

C9_CompletionGoesToRequester ==
  \A c \in Clients : \A i \in AddBlocks(c, "Loaded") :
    chan[c][i].registered => chan[c][i].origin = c

\* C10: applying Loaded(position, lod, ForClient) while no client is registered drops
\* the completion: the handler returns normally and leaves the server unchanged.
C10_CompletionWithoutClientDropped ==
  [][(/\ ups_from_gaia # <<>>
      /\ Head(ups_from_gaia).reason = ForClient
      /\ to_client = None
      /\ ups_from_gaia' = Tail(ups_from_gaia))
     => (/\ panicked' = "no"
         /\ UNCHANGED <<all_blocks, to_client, client_endpoints, chan, ups_to_gaia,
                        owner_store, player>>)]_vars

\* Loads with reason ForClient that gaia or the server still has to process
ForClientInFlight ==
  Cardinality({i \in DOMAIN ups_to_gaia : ups_to_gaia[i].reason = ForClient})
    + Cardinality({i \in DOMAIN ups_from_gaia : ups_from_gaia[i].reason = ForClient})
LocalInFlight ==
  Cardinality({i \in DOMAIN ups_to_gaia : ups_to_gaia[i].reason.kind = "Local"})
    + Cardinality({i \in DOMAIN ups_from_gaia : ups_from_gaia[i].reason.kind = "Local"})
\* RequestBlock messages handled so far, AddBlock messages sent so far
ClientRequests == nrequests - LocalInFlight - Cardinality(owner_store)
Answered ==
  Cardinality({<<c, i>> \in Clients \X (1..(MaxInits + MaxRequests)) :
                 i \in DOMAIN chan[c] /\ chan[c][i].type = "AddBlock"})

\* C11: with gaia answering every Load once and one client staying registered, every
\* RequestBlock leads to exactly one AddBlock to that client: at once when the content
\* is resident, otherwise when the completion is applied; none twice, none unanswered.
C11_EveryRequestAnsweredOnce ==
  /\ [](/\ Answered + ForClientInFlight = ClientRequests
        /\ \A c \in Clients : \A i \in DOMAIN chan[c] :
             chan[c][i].type = "AddBlock" =>
               /\ to_client = Some(c)
               /\ chan[c][i].origin = c
               /\ chan[c][i].block = TerrainBlock(chan[c][i].position, chan[c][i].lod))
  /\ \A k \in 1..MaxRequests : (ClientRequests >= k) ~> (Answered >= k)

C11_Witness ==
  \E c \in Clients :
    /\ AddBlocks(c, "RequestBlock") # {}
    /\ AddBlocks(c, "Loaded") # {}
    /\ ForClientInFlight = 0
    /\ ClientRequests = MaxRequests

\* C12: cube_shell and cube_diff called with a negative radius abort with an error
\* instead of returning a result.
C12_NegativeRadiusAborts ==
  (radius < 0 /\ op # "none") => op = "aborted"

\* the server applies the oldest Loaded message and its reason is ForClient / Local
ForClientCompletion ==
  /\ ups_from_gaia # <<>>
  /\ Head(ups_from_gaia).reason = ForClient
  /\ ups_from_gaia' = Tail(ups_from_gaia)
LocalCompletion ==
  /\ ups_from_gaia # <<>>
  /\ Head(ups_from_gaia).reason.kind = "Local"
  /\ ups_from_gaia' = Tail(ups_from_gaia)

\* C13: the terrain/physics store of the server is written only when a completion with
\* reason Local(owner) is applied; handling RequestBlock and applying a ForClient
\* completion leave the terrain and the owner/physics store unchanged.
C13_OnlyLocalCompletionWrites ==
  [][/\ owner_store' # owner_store => LocalCompletion
     /\ ForClientCompletion => UNCHANGED <<all_blocks, owner_store>>
     /\ \A c \in Clients, position \in Positions, lod \in Lods :
          RequestBlock(c, position, lod) => UNCHANGED <<all_blocks, owner_store>>]_vars

C13_Witness ==
  /\ owner_store # {}
  /\ \E c \in Clients : AddBlocks(c, "Loaded") # {}

\* C14: starting from the cube around the first center and applying, for every center
\* change in order, resident := (resident minus cube_diff(old, new, r)) union
\* cube_diff(new, old, r), the resident set is the cube around the current center after
\* every step; the leaving set is inside the resident set and the entering set is
\* disjoint from it.
C14_ResidentFollowsCenter ==
  /\ [](resident = Cube(to, radius))
  /\ [][\A new_center \in ObserverCenters :
          on_movement(new_center) =>
            /\ ToSet(ret') \subseteq resident
            /\ ToSet(rev') \cap resident = {}]_vars

C14_Witness ==
  /\ op = "on_movement"
  /\ radius = 1
  /\ from.x - to.x = 3
  /\ from.y # to.y
  /\ from.z # to.z
  /\ resident \cap Cube(from, radius) = {}

\* C15: handling RequestBlock(position, lod) while the content is not resident at that
\* lod (position unknown, or known with the lod entry empty or out of range) sends
\* exactly one Load(position, lod, ForClient) to gaia and nothing to the client.
C15_AbsentBlockRequested ==
  [][\A c \in Clients, position \in Positions, lod \in Lods :
       (~IsPresent(position, lod) /\ RequestBlock(c, position, lod)) =>
         /\ Len(ups_to_gaia') = Len(ups_to_gaia) + 1
         /\ SubSeq(ups_to_gaia', 1, Len(ups_to_gaia)) = ups_to_gaia
         /\ LET up == ups_to_gaia'[Len(ups_to_gaia')]
            IN up.position = position /\ up.lod = lod /\ up.reason = ForClient
         /\ chan' = chan
         /\ ups_from_gaia' = ups_from_gaia]_vars

C15_Witness ==
  \E i \in DOMAIN ups_to_gaia :
    /\ ups_to_gaia[i].reason = ForClient
    /\ ups_to_gaia[i].position \in DOMAIN all_blocks
    /\ Len(all_blocks[ups_to_gaia[i].position]) <= ups_to_gaia[i].lod

\* C16: in the RequestBlock arm and in the ForClient arm the presence check and the
\* message sent as its result happen while the terrain lock is held: between the check
\* and the send no other holder of the lock changes the presence of that (cell, lod).
C16_CheckAndSendUnderLock ==
  /\ pc \in {"locked", "checked", "sent"} => lock = "server"
  /\ pc = "checked" => cur.seen = EntryOf(cur.position, cur.lod)

C16_Witness ==
  /\ pc = "checked"
  /\ cur.seen = None
  /\ ups_to_gaia # <<>>
  /\ Head(ups_to_gaia).position = cur.position
  /\ Head(ups_to_gaia).lod = cur.lod

\* C17: for from = (2,0,-3), to = from + (-1,2,0) and radius 1, cube_diff(from, to, 1)
\* equals the set of the 27 offsets of the reference fixture translated by from.
C17_SimpleDiffFixture ==
  (/\ op = "cube_diff"
   /\ from = Point3(2, 0, -3)
   /\ to = Point3(1, 2, -3)
   /\ radius = 1)
    => /\ Len(test_simple_diff_offsets) = 27
       /\ ToSet(ret) = test_simple_diff_expected(from)

C17_Witness ==
  /\ op = "cube_diff"
  /\ from = Point3(2, 0, -3)
  /\ to = Point3(from.x - 1, from.y + 2, from.z)
  /\ radius = 1
  /\ Len(ret) = 21

\* the messages a step appends to the queue of client c
Appended(c) == SubSeq(chan'[c], Len(chan[c]) + 1, Len(chan'[c]))

C18_JumpBoostFollowsFlag ==
  /\ [](player.accel.y - player.walked_y = (IF player.is_jumping THEN JumpBoost ELSE 0))
  /\ [][/\ (StartJump /\ player.is_jumping) => player' = player
        /\ (StopJump /\ ~player.is_jumping) => player' = player
        /\ (StartJump /\ ~player.is_jumping) =>
             player'.is_jumping /\ player'.accel.y = player.accel.y + JumpBoost
        /\ (StopJump /\ player.is_jumping) =>
             ~player'.is_jumping /\ player'.accel.y = player.accel.y - JumpBoost]_vars

C18_Witness ==
  /\ player.is_jumping
  /\ player.walked_y = -1
  /\ player.accel.y = JumpBoost - 1
  /\ player.rotation.lateral = 1

\* C20: after any sequence of successful push calls (ids not stored, distinct within a
\* call) and swap_remove calls (id stored), id_to_index and index_to_id are inverse of
\* each other and hold the same number of entries, and length is 3 times the number of
\* stored ids; swap_remove of the last and of the only stored id keep this too.
C20_IndexMapsInverse ==
  /\ Cardinality(DOMAIN id_to_index) = Len(index_to_id)
  /\ \A id \in DOMAIN id_to_index :
       /\ id_to_index[id] + 1 \in DOMAIN index_to_id
       /\ index_to_id[id_to_index[id] + 1] = id
  /\ \A i \in DOMAIN index_to_id :
       /\ index_to_id[i] \in DOMAIN id_to_index
       /\ id_to_index[index_to_id[i]] = i - 1
  /\ length = 3 * Len(index_to_id)

C20_Witness ==
  /\ last_call.op = "swap_remove"
  /\ last_call.idx = Len(index_to_id)
  /\ Len(index_to_id) = 2
  /\ length = 6

\* C21: when push cannot store the vertex positions (the position buffer is full) it
\* returns false and leaves id_to_index, index_to_id, length and the normal and color
\* buffers unchanged; it returns true only after positions, normals, colors and ids have
\* all been stored.
C21_FailedPushChangesNothing ==
  [][\A ids \in Batches :
       push(ids) =>
         /\ last_call'.op = "push"
         /\ ~buffer_fits(vertex_positions, ids) =>
              /\ last_call'.ret = FALSE
              /\ UNCHANGED <<id_to_index, index_to_id, length, normals, colors>>
         /\ last_call'.ret = TRUE =>
              /\ vertex_positions' = vertex_positions \o ids
              /\ normals' = normals \o ids
              /\ colors' = colors \o ids
              /\ index_to_id' = index_to_id \o ids
              /\ \A i \in DOMAIN ids :
                   /\ ids[i] \in DOMAIN id_to_index'
                   /\ id_to_index'[ids[i]] = Len(index_to_id) + i - 1
              /\ length' = length + 3 * Len(ids)]_vars

C21_Witness ==
  /\ last_call.op = "push"
  /\ last_call.ret = FALSE
  /\ Len(vertex_positions) + MaxBatch > MaxPolygons
  /\ Len(index_to_id) = Len(vertex_positions)
  /\ Len(normals) = Len(vertex_positions)
  /\ Len(colors) = Len(vertex_positions)
  /\ length = 3 * Len(index_to_id)
====
